---- MODULE Spec2Model ----
(***************************************************************************)
(* State-machine model of the voice-call page (axieuser5/voicechat).       *)
(*                                                                         *)
(* Spec       : src/src/App.tsx, the page component with the capture_Email *)
(*              client tool, the permission gate and connects that         *)
(*              succeed.                                                   *)
(* SpecSession: src/src/App.tsx, the permission gate and the session       *)
(*              controller with failing connects and the retry chain.      *)
(* SpecGetEmail: src/unnamed/part_000, the variant whose client tool is    *)
(*              get_email and whose form is the EmailPopup component.      *)
(*                                                                         *)
(* A React handler runs to completion and the component re-renders before  *)
(* the next event is dispatched, so every handler is one atomic action     *)
(* that reads the state of the latest render; an async handler is one      *)
(* action per segment between awaits.  Where the source freezes a value in *)
(* a closure (a useCallback dependency list that leaves it out, or a       *)
(* function that re-schedules itself), the model keeps the frozen value.   *)
(***************************************************************************)
EXTENDS Integers, Sequences, FiniteSets, TLC

\* ------------------------------------------------------------- bounds
\* Number of tool invocations (capture requests) per behaviour.
MaxRequests == 2
\* Cap on conversation.startSession calls that follow one click.
MaxStartCalls == 5
\* Cap on startSession promises left in flight by the connection timeout.
MaxAbandoned == 1
\* Cap on calls of requestMicrophonePermission during one getUserMedia prompt.
MaxPermissionCalls == 2
\* Cap on auto-trigger timers (part_000, onConnect) that have not fired.
MaxAutoTimers == 1
\* Largest number of tracks of a stream that getUserMedia returns.
MaxTracks == 2
\* Cap on onError timers that have not fired.
MaxErrorTimers == 1
\* Cap on addresses submitted through the auto-triggered popup.
MaxAutoSubmits == 2
\* CONNECTION_TIMEOUT timers that may be armed after their race was settled.
MaxConnectionTimers == 2

\* ------------------------------------------------------------- constants
RETRY_ATTEMPTS == 3

\* ------------------------------------------------------------- strings
\* A string is a tuple of one-character strings.
WhiteSpace == {" "}

\* The inputs the user types into the email field.
Inputs ==
  { <<>>,
    <<" ", " ">>,
    <<"n","o","t","-","a","n","-","e","m","a","i","l">>,
    <<" ","a","@","b",".","c"," ">>,
    <<"a","@","b">> }

\* Mutant: the input is used as typed.
Trim_Untrimmed(s) == s

\* String.prototype.trim: drop the white space at both ends.
Trim(s) ==
  IF \A i \in 1..Len(s) : s[i] \in WhiteSpace
  THEN <<>>
  ELSE LET first == CHOOSE i \in 1..Len(s) :
                      /\ s[i] \notin WhiteSpace
                      /\ \A k \in 1..(i-1) : s[k] \in WhiteSpace
           last  == CHOOSE i \in 1..Len(s) :
                      /\ s[i] \notin WhiteSpace
                      /\ \A k \in (i+1)..Len(s) : s[k] \in WhiteSpace
       IN  SubSeq(s, first, last)

\* [^\s@]+ : a non-empty run without white space and without "@".
NoSpaceNoAt(s) ==
  /\ Len(s) > 0
  /\ \A i \in 1..Len(s) : s[i] \notin WhiteSpace /\ s[i] # "@"

\* /^[^\s@]+@[^\s@]+\.[^\s@]+$/.test(s)
emailRegexTest(s) ==
  \E i \in 1..Len(s), j \in 1..Len(s) :
     /\ i < j
     /\ s[i] = "@"
     /\ s[j] = "."
     /\ NoSpaceNoAt(SubSeq(s, 1, i-1))
     /\ NoSpaceNoAt(SubSeq(s, i+1, j-1))
     /\ NoSpaceNoAt(SubSeq(s, j+1, Len(s)))

\* ------------------------------------------------------------- values
\* email: null of an EmailCaptureResult.
NullEmail == <<"null">>
\* emailCaptureResolver = null, window.emailCaptureCleanup = undefined.
NoRequest == 0
Requests == 1..MaxRequests

\* The EmailCaptureResult objects the handlers build; message abbreviates
\* the source's message text.
TimeoutResult   == [email |-> NullEmail, success |-> FALSE, message |-> "timeout"]
CancelledResult == [email |-> NullEmail, success |-> FALSE, message |-> "cancelled"]
ConnectionLostResult ==
  [email |-> NullEmail, success |-> FALSE, message |-> "connection lost"]
CapturedResult(email) == [email |-> email, success |-> TRUE, message |-> "captured"]
\* The value of a promise that has not been settled.
NoValue == [email |-> NullEmail, success |-> FALSE, message |-> "none"]

VARIABLES
  agentId,                \* "id" or "null": import.meta.env.VITE_ELEVENLABS_AGENT_ID
  hasPermission,          \* "null", "true", "false"
  isRequestingPermission,
  showEmailModal,
  emailInput,
  isSubmittingEmail,
  connectionAttempts,
  isSecureConnection,
  emailCaptureResolver,   \* NoRequest, or the request whose resolve is stored
  emailCaptureCleanup,    \* NoRequest, or the request whose timer the
                          \* function on window.emailCaptureCleanup clears
  status,                 \* conversation.status
  nextReq,                \* number of capture requests opened so far
  promise,                \* promise[r]: "none", "pending", "resolved", "rejected"
  value,                  \* value[r]: what promise r was settled with
  resolveCalls,           \* resolveCalls[r]: calls of r's resolve function
  timer,                  \* timer[r]: "none", "armed", "fired", "cleared"
  startPc,                \* handleStartSession: "idle", "racing", "retryWait"
  capturedAttempts,       \* connectionAttempts as the running closure sees it
  startCalls,             \* conversation.startSession calls since the click
  sessionsInFlight,       \* startSession promises that have not settled
  errorTimers,            \* onError's 2 s timers that have not fired
  gumPending,             \* getUserMedia prompts that have not settled
  permissionCalls,        \* calls of requestMicrophonePermission since the
                          \* latest prompt was issued, that call included
  permissionAtReturn,     \* permissionAtReturn[i]: hasPermission as rendered
                          \* when the i-th of those calls returned; "none"
                          \* before the call, "running" while it awaits
  openTracks,             \* tracks of getUserMedia streams that are not stopped
  permissionQuery,        \* navigator.permissions.query of the mount effect:
                          \* "pending", "listening" (settled, change
                          \* listener installed) or "failed"
  showAutoEmailModal,     \* part_000: the auto-triggered popup is open
  autoTimers,             \* part_000: onConnect's 3 s timers that have not fired
  uncaughtError,          \* an exception has escaped a handler or a timer callback
  agentOnClose,           \* part_000: the agent-tool popup has called onClose
  connectionTimers,       \* armed CONNECTION_TIMEOUT timers of settled races
  emailCaptureResolve,    \* useVoiceAssistant variant: NoRequest, or the
                          \* request whose function is on
                          \* window.emailCaptureResolve
  popupError,             \* EmailPopup (auto-triggered): the error text shown
  popupSubmitting,        \* EmailPopup (auto-triggered): isSubmitting
  webhookInFlight,        \* webhook requests of EmailPopup.handleSubmit whose
                          \* response has not arrived
  webhookRequests,        \* requests sent to the webhook endpoint so far
  autoSubmits,            \* addresses submitted through the auto-triggered popup
  autoDelivered           \* calls of the auto-triggered popup's onSubmit

captureVars ==
  << showEmailModal, emailInput, isSubmittingEmail, emailCaptureResolver,
     emailCaptureCleanup, nextReq, promise, value, resolveCalls, timer >>
permissionVars ==
  << hasPermission, isRequestingPermission, gumPending, permissionCalls,
     permissionAtReturn, permissionQuery, openTracks >>
sessionVars ==
  << status, isSecureConnection, connectionAttempts, startPc, capturedAttempts,
     startCalls, sessionsInFlight, errorTimers >>
variantVars == << showAutoEmailModal, autoTimers, uncaughtError >>
popupVars ==
  << popupError, popupSubmitting, webhookInFlight, webhookRequests, autoSubmits,
     autoDelivered >>
vars ==
  << agentId, captureVars, permissionVars, sessionVars, variantVars, popupVars,
     agentOnClose, connectionTimers, emailCaptureResolve >>

Init ==
  /\ agentId \in {"id", "null"}
  /\ hasPermission = "null"
  /\ isRequestingPermission = FALSE
  /\ showEmailModal = FALSE
  /\ emailInput = <<>>
  /\ isSubmittingEmail = FALSE
  /\ connectionAttempts = 0
  /\ isSecureConnection = FALSE
  /\ emailCaptureResolver = NoRequest
  /\ emailCaptureCleanup = NoRequest
  /\ status = "disconnected"
  /\ nextReq = 0
  /\ promise = [r \in Requests |-> "none"]
  /\ value = [r \in Requests |-> NoValue]
  /\ resolveCalls = [r \in Requests |-> 0]
  /\ timer = [r \in Requests |-> "none"]
  /\ startPc = "idle"
  /\ capturedAttempts = 0
  /\ startCalls = 0
  /\ sessionsInFlight = 0
  /\ errorTimers = 0
  /\ gumPending = 0
  /\ permissionCalls = 0
  /\ permissionAtReturn = [i \in 1..MaxPermissionCalls |-> "none"]
  /\ permissionQuery = "pending"
  /\ openTracks = 0
  /\ showAutoEmailModal = FALSE
  /\ autoTimers = 0
  /\ uncaughtError = FALSE
  /\ agentOnClose = FALSE
  /\ connectionTimers = 0
  /\ emailCaptureResolve = NoRequest
  /\ popupError = "none"
  /\ popupSubmitting = FALSE
  /\ webhookInFlight = 0
  /\ webhookRequests = 0
  /\ autoSubmits = 0
  /\ autoDelivered = 0

\* ------------------------------------------------------------- promises
\* A call resolve(v) of promise r's resolve function: the first call settles
\* the promise, a later one is counted and changes nothing else.
ResolvedPromise(p, r) == [p EXCEPT ![r] = IF p[r] = "pending" THEN "resolved" ELSE p[r]]
ResolvedValue(p, val, r, v) == [val EXCEPT ![r] = IF p[r] = "pending" THEN v ELSE val[r]]
Counted(c, r) == [c EXCEPT ![r] = c[r] + 1]

\* ------------------------------------------------------------- capture slot
\* Calling the function stored on window.emailCaptureCleanup by request k:
\* clearTimeout(timeoutId) of request k.  (Its three state setters are part
\* of the calling handler's action.)
\* Mutant: the cleanup function forgets clearTimeout.
ClearedTimer_Forgotten(t, k) == t

ClearedTimer(t, k) == [t EXCEPT ![k] = IF t[k] = "armed" THEN "cleared" ELSE t[k]]

\* Mutant: the tool cancels the timer of the request it replaces and
\* does nothing else about that request.
capture_Email_DropsOldTimer ==
  /\ status = "connected"
  /\ nextReq < MaxRequests
  /\ LET r == nextReq + 1
         k == emailCaptureCleanup IN
       /\ nextReq' = r
       /\ promise' = [promise EXCEPT ![r] = "pending"]
       /\ emailCaptureResolver' = r
       /\ emailInput' = <<>>
       /\ isSubmittingEmail' = FALSE
       /\ showEmailModal' = TRUE
       /\ timer' = [q \in Requests |->
                      IF q = r THEN "armed"
                      ELSE IF q = k /\ timer[q] = "armed" THEN "cleared"
                      ELSE timer[q]]
       /\ emailCaptureCleanup' = r
  /\ UNCHANGED << value, resolveCalls >>
  /\ UNCHANGED << agentId, emailCaptureResolve, connectionTimers,
                  agentOnClose, popupVars, variantVars, permissionVars,
                  sessionVars >>

\* The remote agent invokes the client tool during a session.
capture_Email ==
  /\ status = "connected"
  /\ nextReq < MaxRequests
  /\ LET r == nextReq + 1 IN
       /\ nextReq' = r
       /\ promise' = [promise EXCEPT ![r] = "pending"]
       /\ emailCaptureResolver' = r
       /\ emailInput' = <<>>
       /\ isSubmittingEmail' = FALSE
       /\ showEmailModal' = TRUE
       /\ timer' = [timer EXCEPT ![r] = "armed"]
       /\ emailCaptureCleanup' = r
  /\ UNCHANGED << value, resolveCalls >>
  /\ UNCHANGED << agentId, emailCaptureResolve, connectionTimers,
                  agentOnClose, popupVars, variantVars, permissionVars,
                  sessionVars >>

\* Mutant: the timeout callback resolves the promise and leaves the modal
\* open.
CaptureTimeout_KeepsModal(r) ==
  /\ timer[r] = "armed"
  /\ timer' = [timer EXCEPT ![r] = "fired"]
  /\ emailCaptureResolver' = NoRequest
  /\ isSubmittingEmail' = FALSE
  /\ promise' = ResolvedPromise(promise, r)
  /\ value' = ResolvedValue(promise, value, r, TimeoutResult)
  /\ resolveCalls' = Counted(resolveCalls, r)
  /\ UNCHANGED << showEmailModal, emailInput, emailCaptureCleanup, nextReq >>
  /\ UNCHANGED << agentId, emailCaptureResolve, connectionTimers,
                  agentOnClose, popupVars, variantVars, permissionVars,
                  sessionVars >>

\* The callback of request r's setTimeout(..., EMAIL_CAPTURE_TIMEOUT).
CaptureTimeout(r) ==
  /\ timer[r] = "armed"
  /\ timer' = [timer EXCEPT ![r] = "fired"]
  /\ emailCaptureResolver' = NoRequest
  /\ showEmailModal' = FALSE
  /\ isSubmittingEmail' = FALSE
  /\ promise' = ResolvedPromise(promise, r)
  /\ value' = ResolvedValue(promise, value, r, TimeoutResult)
  /\ resolveCalls' = Counted(resolveCalls, r)
  /\ UNCHANGED << emailInput, emailCaptureCleanup, nextReq >>
  /\ UNCHANGED << agentId, emailCaptureResolve, connectionTimers,
                  agentOnClose, popupVars, variantVars, permissionVars,
                  sessionVars >>

\* onChange of the email field, which is rendered while the modal is shown.
SetEmailInput(e) ==
  /\ showEmailModal
  /\ ~isSubmittingEmail
  /\ emailInput' = e
  /\ UNCHANGED << showEmailModal, isSubmittingEmail, emailCaptureResolver,
                  emailCaptureCleanup, nextReq, promise, value, resolveCalls, timer >>
  /\ UNCHANGED << agentId, emailCaptureResolve, connectionTimers,
                  agentOnClose, popupVars, variantVars, permissionVars,
                  sessionVars >>

\* Mutant: submit resolves the request and leaves its timer armed.
handleEmailSubmit_KeepsTimer ==
  /\ showEmailModal
  /\ LET email == Trim(emailInput)
         r     == emailCaptureResolver
         k     == emailCaptureCleanup
     IN  IF isSubmittingEmail \/ email = <<>>
         THEN UNCHANGED captureVars
         ELSE /\ IF r # NoRequest
                 THEN /\ promise' = ResolvedPromise(promise, r)
                      /\ value' = ResolvedValue(promise, value, r, CapturedResult(email))
                      /\ resolveCalls' = Counted(resolveCalls, r)
                      /\ timer' = timer
                      /\ emailCaptureCleanup' = NoRequest
                 ELSE UNCHANGED << promise, value, resolveCalls, timer,
                                   emailCaptureCleanup >>
              /\ emailCaptureResolver' = NoRequest
              /\ showEmailModal' = FALSE
              /\ emailInput' = <<>>
              /\ isSubmittingEmail' = FALSE
              /\ UNCHANGED nextReq
  /\ UNCHANGED << agentId, emailCaptureResolve, connectionTimers,
                  agentOnClose, popupVars, variantVars, permissionVars,
                  sessionVars >>

\* The submit button or the Enter key of the modal.
handleEmailSubmit ==
  /\ showEmailModal
  /\ LET email == Trim(emailInput)
         r     == emailCaptureResolver
         k     == emailCaptureCleanup
     IN  IF isSubmittingEmail \/ email = <<>>
         THEN UNCHANGED captureVars
         ELSE /\ IF r # NoRequest
                 THEN /\ promise' = ResolvedPromise(promise, r)
                      /\ value' = ResolvedValue(promise, value, r, CapturedResult(email))
                      /\ resolveCalls' = Counted(resolveCalls, r)
                      /\ timer' = IF k # NoRequest THEN ClearedTimer(timer, k) ELSE timer
                      /\ emailCaptureCleanup' = NoRequest
                 ELSE UNCHANGED << promise, value, resolveCalls, timer,
                                   emailCaptureCleanup >>
              /\ emailCaptureResolver' = NoRequest
              /\ showEmailModal' = FALSE
              /\ emailInput' = <<>>
              /\ isSubmittingEmail' = FALSE
              /\ UNCHANGED nextReq
  /\ UNCHANGED << agentId, emailCaptureResolve, connectionTimers,
                  agentOnClose, popupVars, variantVars, permissionVars,
                  sessionVars >>

\* Mutant: cancel closes the modal and empties the slot without calling the
\* resolver.
handleEmailCancel_OnlyCloses ==
  /\ showEmailModal
  /\ emailCaptureResolver' = NoRequest
  /\ showEmailModal' = FALSE
  /\ emailInput' = <<>>
  /\ isSubmittingEmail' = FALSE
  /\ UNCHANGED << promise, value, resolveCalls, timer, emailCaptureCleanup,
                  nextReq >>
  /\ UNCHANGED << agentId, emailCaptureResolve, connectionTimers,
                  agentOnClose, popupVars, variantVars, permissionVars,
                  sessionVars >>

\* The close button, the cancel button or the Escape key of the modal.
handleEmailCancel ==
  /\ showEmailModal
  /\ LET r == emailCaptureResolver
         k == emailCaptureCleanup
     IN  /\ IF r # NoRequest
            THEN /\ promise' = ResolvedPromise(promise, r)
                 /\ value' = ResolvedValue(promise, value, r, CancelledResult)
                 /\ resolveCalls' = Counted(resolveCalls, r)
                 /\ timer' = IF k # NoRequest THEN ClearedTimer(timer, k) ELSE timer
                 /\ emailCaptureCleanup' = NoRequest
            ELSE UNCHANGED << promise, value, resolveCalls, timer,
                              emailCaptureCleanup >>
         /\ emailCaptureResolver' = NoRequest
         /\ showEmailModal' = FALSE
         /\ emailInput' = <<>>
         /\ isSubmittingEmail' = FALSE
         /\ UNCHANGED nextReq
  /\ UNCHANGED << agentId, emailCaptureResolve, connectionTimers,
                  agentOnClose, popupVars, variantVars, permissionVars,
                  sessionVars >>

\* ------------------------------------------------------------- permission gate
\* requestMicrophonePermission up to its await of getUserMedia, or up to its
\* early return when a request is in flight.
requestMicrophonePermission ==
  /\ IF isRequestingPermission
     THEN /\ permissionCalls < MaxPermissionCalls
          /\ permissionCalls' = permissionCalls + 1
          /\ permissionAtReturn' =
               [permissionAtReturn EXCEPT ![permissionCalls + 1] = hasPermission]
          /\ UNCHANGED << isRequestingPermission, gumPending >>
     ELSE /\ permissionCalls' = 1
          /\ permissionAtReturn' =
               [i \in 1..MaxPermissionCalls |->
                  IF i = 1 THEN "running" ELSE "none"]
          /\ isRequestingPermission' = TRUE
          /\ gumPending' = gumPending + 1
  /\ UNCHANGED << hasPermission, permissionQuery, openTracks >>

\* A call of requestMicrophonePermission by a caller that holds the current
\* render's callback.
CallRequestMicrophonePermission ==
  /\ requestMicrophonePermission
  /\ UNCHANGED << agentId, emailCaptureResolve, connectionTimers,
                  agentOnClose, popupVars, variantVars, captureVars,
                  sessionVars >>

\* Mutant: the stream is dropped without stopping its tracks.
StoppedTracks_None(tracks) == 0

\* stream.getTracks().forEach(track => track.stop()): the number of tracks
\* of the stream that the loop stops.
StoppedTracks(tracks) == tracks

\* Mutant: the flag is cleared at the end of the try body instead of in a
\* finally block, so a rejection leaves it set.
GetUserMediaSettles_NoFinally(granted) ==
  /\ gumPending > 0
  /\ gumPending' = gumPending - 1
  /\ hasPermission' = IF granted THEN "true" ELSE "false"
  /\ IF granted
     THEN \E tracks \in 1..MaxTracks :
             openTracks' = openTracks + tracks - StoppedTracks(tracks)
     ELSE UNCHANGED openTracks
  /\ isRequestingPermission' = IF granted THEN FALSE ELSE isRequestingPermission
  /\ permissionAtReturn' = [permissionAtReturn EXCEPT ![1] = hasPermission']
  /\ UNCHANGED << permissionCalls, permissionQuery >>
  /\ UNCHANGED << agentId, emailCaptureResolve, connectionTimers,
                  agentOnClose, popupVars, variantVars, captureVars,
                  sessionVars >>

\* getUserMedia settles: the rest of requestMicrophonePermission (the try
\* body after the await, on a stream of one or more tracks, or the catch
\* block, then the finally block).
GetUserMediaSettles(granted) ==
  /\ gumPending > 0
  /\ gumPending' = gumPending - 1
  /\ hasPermission' = IF granted THEN "true" ELSE "false"
  /\ IF granted
     THEN \E tracks \in 1..MaxTracks :
             openTracks' = openTracks + tracks - StoppedTracks(tracks)
     ELSE UNCHANGED openTracks
  /\ isRequestingPermission' = FALSE
  /\ permissionAtReturn' = [permissionAtReturn EXCEPT ![1] = hasPermission']
  /\ UNCHANGED << permissionCalls, permissionQuery >>
  /\ UNCHANGED << agentId, emailCaptureResolve, connectionTimers,
                  agentOnClose, popupVars, variantVars, captureVars,
                  sessionVars >>

\* checkPermissions of the mount effect after its await: the query settles,
\* hasPermission is set from result.state and the change listener is
\* installed.
PermissionQuerySettles(granted) ==
  /\ permissionQuery = "pending"
  /\ permissionQuery' = "listening"
  /\ hasPermission' = IF granted THEN "true" ELSE "false"
  /\ UNCHANGED << isRequestingPermission, gumPending, permissionCalls,
                  permissionAtReturn, openTracks >>
  /\ UNCHANGED << agentId, emailCaptureResolve, connectionTimers,
                  agentOnClose, popupVars, variantVars, captureVars,
                  sessionVars >>

\* Mutant: a failed permission query is taken for a refusal.
PermissionQueryFails_SetsDenied ==
  /\ permissionQuery = "pending"
  /\ permissionQuery' = "failed"
  /\ hasPermission' = "false"
  /\ UNCHANGED << isRequestingPermission, gumPending, permissionCalls,
                  permissionAtReturn, openTracks >>
  /\ UNCHANGED << agentId, emailCaptureResolve, connectionTimers,
                  agentOnClose, popupVars, variantVars, captureVars,
                  sessionVars >>

\* checkPermissions when navigator.permissions is missing or the query
\* throws: nothing is set.
PermissionQueryFails ==
  /\ permissionQuery = "pending"
  /\ permissionQuery' = "failed"
  /\ UNCHANGED << hasPermission, isRequestingPermission, gumPending,
                  permissionCalls, permissionAtReturn, openTracks >>
  /\ UNCHANGED << agentId, emailCaptureResolve, connectionTimers,
                  agentOnClose, popupVars, variantVars, captureVars,
                  sessionVars >>

\* The 'change' listener of the PermissionStatus object.
PermissionChange(granted) ==
  /\ permissionQuery = "listening"
  /\ hasPermission' = IF granted THEN "true" ELSE "false"
  /\ UNCHANGED << isRequestingPermission, gumPending, permissionCalls,
                  permissionAtReturn, permissionQuery, openTracks >>
  /\ UNCHANGED << agentId, emailCaptureResolve, connectionTimers,
                  agentOnClose, popupVars, variantVars, captureVars,
                  sessionVars >>

\* ------------------------------------------------------------- session controller
\* The emailCaptureResolver that the onDisconnect callback closes over: its
\* useCallback has the dependency list [], so it is the first render's null.
DisconnectClosureResolver == NoRequest

\* Mutant: onDisconnect closes the modal outside its test of the resolver.
onDisconnect_ClosesModalAnyway ==
  /\ isSecureConnection' = FALSE
  /\ showEmailModal' = FALSE
  /\ UNCHANGED << emailInput, isSubmittingEmail, emailCaptureResolver,
                  emailCaptureCleanup, nextReq, promise, value, resolveCalls,
                  timer >>

\* The onDisconnect callback.
onDisconnect ==
  /\ isSecureConnection' = FALSE
  /\ LET r == DisconnectClosureResolver IN
       IF r # NoRequest
       THEN /\ promise' = ResolvedPromise(promise, r)
            /\ value' = ResolvedValue(promise, value, r, ConnectionLostResult)
            /\ resolveCalls' = Counted(resolveCalls, r)
            /\ emailCaptureResolver' = NoRequest
            /\ showEmailModal' = FALSE
            /\ UNCHANGED << emailInput, isSubmittingEmail, emailCaptureCleanup,
                            nextReq, timer >>
       ELSE UNCHANGED captureVars

\* Mutant: onConnect leaves the retry counter alone.
onConnect_KeepsCounter ==
  /\ isSecureConnection' = TRUE
  /\ UNCHANGED connectionAttempts

\* The onConnect callback.
onConnect ==
  /\ isSecureConnection' = TRUE
  /\ connectionAttempts' = 0

\* The onError callback, called by the vendor for an error of a session
\* that is connecting or connected.
onError ==
  /\ status # "disconnected"
  /\ isSecureConnection' = FALSE
  /\ IF connectionAttempts < RETRY_ATTEMPTS
     THEN /\ errorTimers < MaxErrorTimers
          /\ errorTimers' = errorTimers + 1
     ELSE UNCHANGED errorTimers
  /\ UNCHANGED << status, connectionAttempts, startPc, capturedAttempts,
                  startCalls, sessionsInFlight >>
  /\ UNCHANGED << agentId, emailCaptureResolve, connectionTimers,
                  agentOnClose, popupVars, variantVars, captureVars,
                  permissionVars >>

\* The callback of onError's setTimeout(..., 2000): it increments the
\* counter and logs; it calls nothing else.
ErrorRetryTimer ==
  /\ errorTimers > 0
  /\ errorTimers' = errorTimers - 1
  /\ connectionAttempts' = connectionAttempts + 1
  /\ UNCHANGED << status, isSecureConnection, startPc, capturedAttempts,
                  startCalls, sessionsInFlight >>
  /\ UNCHANGED << agentId, emailCaptureResolve, connectionTimers,
                  agentOnClose, popupVars, variantVars, captureVars,
                  permissionVars >>

\* disabled={isConnecting || isRequestingPermission} of the call button, which
\* calls handleStartSession unless isConnected.
StartButtonEnabled == status = "disconnected" /\ ~isRequestingPermission

\* handleStartSession from its try to the await of Promise.race.
StartAttempt ==
  /\ status' = "connecting"
  /\ sessionsInFlight' = sessionsInFlight + 1
  /\ startPc' = "racing"

\* The catch block of handleStartSession; the closure's connectionAttempts
\* decides, the state's is incremented.
CatchStartFailure ==
  IF capturedAttempts < RETRY_ATTEMPTS
  THEN /\ connectionAttempts' = connectionAttempts + 1
       /\ startPc' = "retryWait"
  ELSE /\ startPc' = "idle"
       /\ UNCHANGED connectionAttempts

\* Mutant: handleStartSession without the agent ID check.
ClickStart_IgnoresAgentId ==
  /\ StartButtonEnabled
  /\ startPc = "idle"
  /\ IF FALSE
     THEN UNCHANGED << permissionVars, sessionVars >>
     ELSE IF hasPermission # "true"
          THEN /\ requestMicrophonePermission
               /\ UNCHANGED sessionVars
          ELSE /\ StartAttempt
               /\ capturedAttempts' = connectionAttempts
               /\ startCalls' = 1
               /\ UNCHANGED << isSecureConnection, connectionAttempts,
                               errorTimers >>
               /\ UNCHANGED permissionVars
  /\ UNCHANGED << agentId, emailCaptureResolve, connectionTimers,
                  agentOnClose, popupVars, variantVars, captureVars >>

\* A click on the call button while no call is up: handleStartSession of the
\* latest render.  (One handleStartSession chain is followed at a time.)
ClickStart ==
  /\ StartButtonEnabled
  /\ startPc = "idle"
  /\ IF agentId = "null"
     THEN UNCHANGED << permissionVars, sessionVars >>
     ELSE IF hasPermission # "true"
          THEN /\ requestMicrophonePermission
               /\ UNCHANGED sessionVars
          ELSE /\ StartAttempt
               /\ capturedAttempts' = connectionAttempts
               /\ startCalls' = 1
               /\ UNCHANGED << isSecureConnection, connectionAttempts,
                               errorTimers >>
               /\ UNCHANGED permissionVars
  /\ UNCHANGED << agentId, emailCaptureResolve, connectionTimers,
                  agentOnClose, popupVars, variantVars, captureVars >>

\* conversation.startSession of the awaited race resolves: the vendor
\* connects and calls onConnect, and handleStartSession returns.
SessionResolves ==
  /\ startPc = "racing"
  /\ sessionsInFlight' = sessionsInFlight - 1
  /\ status' = "connected"
  /\ onConnect
  /\ startPc' = "idle"
  /\ UNCHANGED << capturedAttempts, startCalls >>
  /\ UNCHANGED errorTimers
  /\ UNCHANGED << agentId, emailCaptureResolve, connectionTimers,
                  agentOnClose, popupVars, variantVars, captureVars,
                  permissionVars >>

\* conversation.startSession of the awaited race rejects.
SessionRejects ==
  /\ startPc = "racing"
  /\ sessionsInFlight' = sessionsInFlight - 1
  /\ status' = "disconnected"
  /\ CatchStartFailure
  /\ UNCHANGED << isSecureConnection, capturedAttempts, startCalls >>
  /\ UNCHANGED errorTimers
  /\ UNCHANGED << agentId, emailCaptureResolve, connectionTimers,
                  agentOnClose, popupVars, variantVars, captureVars,
                  permissionVars >>

\* The CONNECTION_TIMEOUT timer rejects the race first; the startSession
\* promise it raced stays in flight.
ConnectionTimeout ==
  /\ startPc = "racing"
  /\ sessionsInFlight <= MaxAbandoned
  /\ CatchStartFailure
  /\ UNCHANGED << status, isSecureConnection, capturedAttempts, startCalls,
                  sessionsInFlight >>
  /\ UNCHANGED errorTimers
  /\ UNCHANGED << agentId, emailCaptureResolve, connectionTimers,
                  agentOnClose, popupVars, variantVars, captureVars,
                  permissionVars >>

\* SessionResolves with the CONNECTION_TIMEOUT timer of the race followed:
\* startSession resolves before the timer expires, which stays armed.
SessionResolvesInTime ==
  /\ startPc = "racing"
  /\ connectionTimers < MaxConnectionTimers
  /\ connectionTimers' = connectionTimers + 1
  /\ sessionsInFlight' = sessionsInFlight - 1
  /\ status' = "connected"
  /\ onConnect
  /\ startPc' = "idle"
  /\ UNCHANGED << capturedAttempts, startCalls, errorTimers >>
  /\ UNCHANGED << agentId, emailCaptureResolve, agentOnClose, popupVars,
                  variantVars, captureVars, permissionVars >>

\* Mutant: a timeout that fires after its race was settled still reaches the
\* catch block.
StaleConnectionTimeout_RunsCatch ==
  /\ connectionTimers > 0
  /\ connectionTimers' = connectionTimers - 1
  /\ CatchStartFailure
  /\ UNCHANGED << status, isSecureConnection, capturedAttempts, startCalls,
                  sessionsInFlight, errorTimers >>
  /\ UNCHANGED << agentId, emailCaptureResolve, agentOnClose, popupVars,
                  variantVars, captureVars, permissionVars >>

\* The CONNECTION_TIMEOUT timer of a race that startSession has already
\* settled: it rejects timeoutPromise, which the settled Promise.race
\* ignores, so the catch block of handleStartSession is not entered.
StaleConnectionTimeout ==
  /\ connectionTimers > 0
  /\ connectionTimers' = connectionTimers - 1
  /\ UNCHANGED sessionVars
  /\ UNCHANGED << agentId, emailCaptureResolve, agentOnClose, popupVars,
                  variantVars, captureVars, permissionVars >>

\* setTimeout(() => handleStartSession(), 1000): the closure calls itself, so
\* agentId, hasPermission and connectionAttempts are the ones it captured.
RetryTimer ==
  /\ startPc = "retryWait"
  /\ startCalls < MaxStartCalls
  /\ StartAttempt
  /\ startCalls' = startCalls + 1
  /\ UNCHANGED << isSecureConnection, connectionAttempts, capturedAttempts >>
  /\ UNCHANGED errorTimers
  /\ UNCHANGED << agentId, emailCaptureResolve, connectionTimers,
                  agentOnClose, popupVars, variantVars, captureVars,
                  permissionVars >>

\* A startSession promise that lost its race to the timeout settles.
AbandonedSessionSettles(connected) ==
  /\ sessionsInFlight > (IF startPc = "racing" THEN 1 ELSE 0)
  /\ sessionsInFlight' = sessionsInFlight - 1
  /\ IF connected
     THEN /\ status' = "connected"
          /\ onConnect
     ELSE /\ status' = IF status = "connected" THEN "connected" ELSE
                       IF sessionsInFlight' > 0 THEN "connecting" ELSE "disconnected"
          /\ UNCHANGED << isSecureConnection, connectionAttempts >>
  /\ UNCHANGED << startPc, capturedAttempts, startCalls >>
  /\ UNCHANGED errorTimers
  /\ UNCHANGED << agentId, emailCaptureResolve, connectionTimers,
                  agentOnClose, popupVars, variantVars, captureVars,
                  permissionVars >>

\* The vendor reports the end of the connection (the remote side or the
\* transport dropped it).
Disconnected ==
  /\ status = "connected"
  /\ status' = "disconnected"
  /\ onDisconnect
  /\ UNCHANGED << connectionAttempts, startPc, capturedAttempts, startCalls,
                  sessionsInFlight >>
  /\ UNCHANGED errorTimers
  /\ UNCHANGED << agentId, emailCaptureResolve, connectionTimers,
                  agentOnClose, popupVars, variantVars, permissionVars >>

\* A click on the call button while the call is up: handleEndSession, with
\* the vendor's onDisconnect during conversation.endSession().
handleEndSession ==
  /\ status = "connected"
  /\ ~isRequestingPermission
  /\ status' = "disconnected"
  /\ onDisconnect
  /\ connectionAttempts' = 0
  /\ UNCHANGED << startPc, capturedAttempts, startCalls, sessionsInFlight >>
  /\ UNCHANGED errorTimers
  /\ UNCHANGED << agentId, emailCaptureResolve, connectionTimers,
                  agentOnClose, popupVars, variantVars, permissionVars >>

\* handleEndSession when conversation.endSession() throws: the catch block
\* logs and the finally block runs; the vendor reports no disconnect.
handleEndSessionThrows ==
  /\ status = "connected"
  /\ ~isRequestingPermission
  /\ isSecureConnection' = FALSE
  /\ connectionAttempts' = 0
  /\ UNCHANGED << status, startPc, capturedAttempts, startCalls,
                  sessionsInFlight, errorTimers >>
  /\ UNCHANGED << agentId, emailCaptureResolve, connectionTimers,
                  agentOnClose, popupVars, variantVars, captureVars,
                  permissionVars >>

\* ------------------------------------------- part_005 / part_003: useVoiceAssistant
\* The capture_Email client tool of the hook (the function
\* emailCaptureResolver of part_005) with the 'showEmailModal' listener of
\* part_003, which the dispatched event calls synchronously.
capture_Email_hook ==
  /\ status = "connected"
  /\ nextReq < MaxRequests
  /\ LET r == nextReq + 1 IN
       /\ nextReq' = r
       /\ promise' = [promise EXCEPT ![r] = "pending"]
       /\ timer' = [timer EXCEPT ![r] = "armed"]
       /\ emailCaptureResolve' = r
  /\ showEmailModal' = TRUE
  /\ emailInput' = <<>>
  /\ UNCHANGED << isSubmittingEmail, emailCaptureResolver,
                  emailCaptureCleanup, value, resolveCalls >>
  /\ UNCHANGED << agentId, connectionTimers, agentOnClose, popupVars,
                  variantVars, permissionVars, sessionVars >>

\* The 60-second timer of request r: it resolves the promise and does
\* nothing else.
HookTimeout(r) ==
  /\ timer[r] = "armed"
  /\ timer' = [timer EXCEPT ![r] = "fired"]
  /\ promise' = ResolvedPromise(promise, r)
  /\ value' = ResolvedValue(promise, value, r, TimeoutResult)
  /\ resolveCalls' = Counted(resolveCalls, r)
  /\ UNCHANGED << showEmailModal, emailInput, isSubmittingEmail,
                  emailCaptureResolver, emailCaptureCleanup, nextReq >>
  /\ UNCHANGED << agentId, emailCaptureResolve, connectionTimers,
                  agentOnClose, popupVars, variantVars, permissionVars,
                  sessionVars >>

\* Calling the function on window.emailCaptureResolve, stored by request r,
\* with result v (clearTimeout, then resolve), and deleting the property.
CallEmailCaptureResolve(v) ==
  LET r == emailCaptureResolve IN
    IF r # NoRequest
    THEN /\ timer' = ClearedTimer(timer, r)
         /\ promise' = ResolvedPromise(promise, r)
         /\ value' = ResolvedValue(promise, value, r, v)
         /\ resolveCalls' = Counted(resolveCalls, r)
         /\ emailCaptureResolve' = NoRequest
    ELSE UNCHANGED << timer, promise, value, resolveCalls, emailCaptureResolve >>

\* handleEmailSubmit of part_003: an address that fails the format test is
\* logged and submitted all the same.
handleEmailSubmit_hook ==
  /\ showEmailModal
  /\ LET email == Trim(emailInput) IN
       IF email = <<>>
       THEN UNCHANGED << showEmailModal, emailInput, timer, promise, value,
                         resolveCalls, emailCaptureResolve >>
       ELSE /\ CallEmailCaptureResolve(CapturedResult(email))
            /\ showEmailModal' = FALSE
            /\ emailInput' = <<>>
  /\ UNCHANGED << isSubmittingEmail, emailCaptureResolver,
                  emailCaptureCleanup, nextReq >>
  /\ UNCHANGED << agentId, connectionTimers, agentOnClose, popupVars,
                  variantVars, permissionVars, sessionVars >>

\* handleEmailCancel of part_003 (the cancel button or the Escape key).
handleEmailCancel_hook ==
  /\ showEmailModal
  /\ CallEmailCaptureResolve(CancelledResult)
  /\ showEmailModal' = FALSE
  /\ emailInput' = <<>>
  /\ UNCHANGED << isSubmittingEmail, emailCaptureResolver,
                  emailCaptureCleanup, nextReq >>
  /\ UNCHANGED << agentId, connectionTimers, agentOnClose, popupVars,
                  variantVars, permissionVars, sessionVars >>

\* ------------------------------------------------------------- part_000: get_email
\* Mutant: the stored resolver passes the whole result object on.
RawEmail_ResultObject(email) == CapturedResult(email)

\* What get_email's promise is resolved with: the email string itself.
RawEmail(email) == [string |-> email]

\* The remote agent invokes the get_email client tool during a session.
get_email ==
  /\ status = "connected"
  /\ nextReq < MaxRequests
  /\ LET r == nextReq + 1 IN
       /\ nextReq' = r
       /\ promise' = [promise EXCEPT ![r] = "pending"]
       /\ emailCaptureResolver' = r
       /\ showEmailModal' = TRUE
       /\ timer' = [timer EXCEPT ![r] = "armed"]
       /\ emailCaptureCleanup' = r
  /\ UNCHANGED << emailInput, isSubmittingEmail, value, resolveCalls >>
  /\ UNCHANGED << agentId, emailCaptureResolve, connectionTimers,
                  agentOnClose, popupVars, variantVars, permissionVars,
                  sessionVars >>

\* The callback of request r's setTimeout(..., 1000).  Its last statement
\* calls reject, which the promise executor (resolve) => {...} does not
\* bind: a ReferenceError leaves the callback and the promise stays pending.
GetEmailTimeout(r) ==
  /\ timer[r] = "armed"
  /\ timer' = [timer EXCEPT ![r] = "fired"]
  /\ emailCaptureResolver' = NoRequest
  /\ showEmailModal' = FALSE
  /\ uncaughtError' = TRUE
  /\ UNCHANGED << emailInput, isSubmittingEmail, emailCaptureCleanup, nextReq,
                  promise, value, resolveCalls >>
  /\ UNCHANGED << agentId, emailCaptureResolve, connectionTimers,
                  agentOnClose, popupVars, showAutoEmailModal, autoTimers,
                  permissionVars, sessionVars >>

\* Mutant: the agent-tool popup sends every submit to the webhook as well.
PopupSubmitAgent_SendsWebhook(e) ==
  /\ showEmailModal
  /\ LET email == Trim(e)
         r     == emailCaptureResolver
         k     == emailCaptureCleanup
     IN  IF email = <<>> \/ ~emailRegexTest(email)
         THEN UNCHANGED captureVars
         ELSE /\ IF r # NoRequest
                 THEN /\ promise' = ResolvedPromise(promise, r)
                      /\ value' = ResolvedValue(promise, value, r, RawEmail(email))
                      /\ resolveCalls' = Counted(resolveCalls, r)
                      /\ timer' = IF k # NoRequest THEN ClearedTimer(timer, k) ELSE timer
                      /\ emailCaptureCleanup' = NoRequest
                 ELSE UNCHANGED << promise, value, resolveCalls, timer,
                                   emailCaptureCleanup >>
              /\ emailCaptureResolver' = NoRequest
              /\ showEmailModal' = FALSE
              /\ UNCHANGED << emailInput, isSubmittingEmail, nextReq >>
  /\ webhookRequests' = webhookRequests + 1
  /\ UNCHANGED << popupError, popupSubmitting, webhookInFlight, autoSubmits,
                  autoDelivered >>
  /\ UNCHANGED << agentId, emailCaptureResolve, connectionTimers,
                  agentOnClose, variantVars, permissionVars, sessionVars >>

\* EmailPopup.handleSubmit of the agent-tool popup (isAgentTool) on the field
\* content e, and App's handleEmailSubmit that it calls with the trimmed
\* address; the stored resolver resolves the promise with the email string.
PopupSubmitAgent(e) ==
  /\ showEmailModal
  /\ LET email == Trim(e)
         r     == emailCaptureResolver
         k     == emailCaptureCleanup
     IN  IF email = <<>> \/ ~emailRegexTest(email)
         THEN UNCHANGED captureVars
         ELSE /\ IF r # NoRequest
                 THEN /\ promise' = ResolvedPromise(promise, r)
                      /\ value' = ResolvedValue(promise, value, r, RawEmail(email))
                      /\ resolveCalls' = Counted(resolveCalls, r)
                      /\ timer' = IF k # NoRequest THEN ClearedTimer(timer, k) ELSE timer
                      /\ emailCaptureCleanup' = NoRequest
                 ELSE UNCHANGED << promise, value, resolveCalls, timer,
                                   emailCaptureCleanup >>
              /\ emailCaptureResolver' = NoRequest
              /\ showEmailModal' = FALSE
              /\ UNCHANGED << emailInput, isSubmittingEmail, nextReq >>
  /\ UNCHANGED << agentId, emailCaptureResolve, connectionTimers,
                  agentOnClose, popupVars, variantVars, permissionVars,
                  sessionVars >>

\* The Escape key of the agent-tool popup: EmailPopup.handleKeyPress calls
\* onClose, App's handleEmailClose.  The stored resolver, called with a
\* failure, calls the unbound reject: the ReferenceError leaves the handler
\* before it clears the slot and closes the popup.
PopupCloseAgent ==
  /\ showEmailModal
  /\ IF emailCaptureResolver # NoRequest
     THEN /\ uncaughtError' = TRUE
          /\ UNCHANGED captureVars
     ELSE /\ showEmailModal' = FALSE
          /\ UNCHANGED << emailInput, isSubmittingEmail, emailCaptureResolver,
                          emailCaptureCleanup, nextReq, promise, value,
                          resolveCalls, timer, uncaughtError >>
  /\ agentOnClose' = TRUE
  /\ UNCHANGED << agentId, emailCaptureResolve, connectionTimers, popupVars,
                  showAutoEmailModal, autoTimers, permissionVars,
                  sessionVars >>

\* The onDisconnect callback of part_000 (dependency list
\* [emailCaptureResolver]).  The vendor hook decides whether it calls the
\* latest render's callback or an older one that saw no resolver; a stored
\* resolver called with the failure throws as in PopupCloseAgent.
onDisconnect_get_email ==
  /\ isSecureConnection' = FALSE
  /\ showAutoEmailModal' = FALSE
  /\ \E seen \in {emailCaptureResolver, NoRequest} :
        uncaughtError' = (uncaughtError \/ seen # NoRequest)
  /\ UNCHANGED << captureVars, autoTimers >>

\* conversation.startSession resolves: the vendor connects and calls
\* part_000's onConnect, which arms the 3 s auto-trigger timer.
SessionResolves_get_email ==
  /\ startPc = "racing"
  /\ autoTimers < MaxAutoTimers
  /\ sessionsInFlight' = sessionsInFlight - 1
  /\ status' = "connected"
  /\ onConnect
  /\ autoTimers' = autoTimers + 1
  /\ startPc' = "idle"
  /\ UNCHANGED << capturedAttempts, startCalls >>
  /\ UNCHANGED errorTimers
  /\ UNCHANGED << agentId, emailCaptureResolve, connectionTimers,
                  agentOnClose, popupVars, showAutoEmailModal, uncaughtError,
                  captureVars, permissionVars >>

\* The auto-trigger timer fires.
AutoTrigger ==
  /\ autoTimers > 0
  /\ autoTimers' = autoTimers - 1
  /\ showAutoEmailModal' = TRUE
  /\ UNCHANGED << agentId, emailCaptureResolve, connectionTimers,
                  agentOnClose, popupVars, uncaughtError, captureVars,
                  permissionVars, sessionVars >>

\* The auto-triggered popup is closed: by its close or cancel button
\* (EmailPopup.handleClose, which does nothing while isSubmitting and
\* otherwise clears the error) or by the Escape key (handleKeyPress, which
\* calls onClose directly); onClose is App's handleAutoEmailClose.
handleAutoEmailClose ==
  /\ showAutoEmailModal
  /\ \E viaEscape \in BOOLEAN :
        IF viaEscape
        THEN /\ showAutoEmailModal' = FALSE
             /\ UNCHANGED popupError
        ELSE /\ ~popupSubmitting
             /\ showAutoEmailModal' = FALSE
             /\ popupError' = "none"
  /\ UNCHANGED << popupSubmitting, webhookInFlight, webhookRequests,
                  autoSubmits, autoDelivered >>
  /\ UNCHANGED << agentId, emailCaptureResolve, connectionTimers,
                  agentOnClose, autoTimers, uncaughtError, captureVars,
                  permissionVars, sessionVars >>

\* App's handleAutoEmailSubmit, the onSubmit of the auto-triggered popup: it
\* sends the address to the webhook (img.src) and closes the popup.
handleAutoEmailSubmit ==
  /\ webhookRequests' = webhookRequests + 1
  /\ autoDelivered' = autoDelivered + 1
  /\ showAutoEmailModal' = FALSE

\* The validation at the head of EmailPopup.handleSubmit: the error it sets,
\* "none" when the trimmed input is a well-formed address.
ValidationError(e) ==
  IF Trim(e) = <<>> THEN "required"
  ELSE IF ~emailRegexTest(Trim(e)) THEN "invalid"
  ELSE "none"

\* EmailPopup.handleSubmit of the auto-triggered popup (isAgentTool = false)
\* on the field content e: a well-formed address is sent to the webhook by
\* img.src; isSubmitting is set and reset within the handler, and the popup
\* stays open until the image settles.
AutoPopupSubmit(e) ==
  /\ showAutoEmailModal
  /\ popupError' = ValidationError(e)
  /\ IF ValidationError(e) = "none"
     THEN /\ autoSubmits < MaxAutoSubmits
          /\ autoSubmits' = autoSubmits + 1
          /\ webhookRequests' = webhookRequests + 1
          /\ webhookInFlight' = webhookInFlight + 1
     ELSE UNCHANGED << autoSubmits, webhookRequests, webhookInFlight >>
  /\ UNCHANGED << popupSubmitting, autoDelivered, showAutoEmailModal >>
  /\ UNCHANGED << agentId, emailCaptureResolve, connectionTimers,
                  agentOnClose, autoTimers, uncaughtError, captureVars,
                  permissionVars, sessionVars >>

\* img.onload or img.onerror of a request sent by AutoPopupSubmit: both call
\* onSubmit(trimmedEmail).
AutoImageSettles ==
  /\ webhookInFlight > 0
  /\ webhookInFlight' = webhookInFlight - 1
  /\ handleAutoEmailSubmit
  /\ UNCHANGED << popupError, popupSubmitting, autoSubmits >>
  /\ UNCHANGED << agentId, emailCaptureResolve, connectionTimers,
                  agentOnClose, autoTimers, uncaughtError, captureVars,
                  permissionVars, sessionVars >>

\* ------------------------------------------------------------- EmailPopup, fetch variant
\* EmailPopup.handleSubmit of the variant that sends the address with
\* fetch, up to its await.
FetchPopupSubmit(e) ==
  /\ showAutoEmailModal
  /\ IF popupSubmitting
     THEN UNCHANGED popupVars
     ELSE /\ popupError' = ValidationError(e)
          /\ IF ValidationError(e) = "none"
             THEN /\ autoSubmits < MaxAutoSubmits
                  /\ autoSubmits' = autoSubmits + 1
                  /\ popupSubmitting' = TRUE
                  /\ webhookRequests' = webhookRequests + 1
                  /\ webhookInFlight' = webhookInFlight + 1
             ELSE UNCHANGED << autoSubmits, popupSubmitting, webhookRequests,
                               webhookInFlight >>
          /\ UNCHANGED autoDelivered
  /\ UNCHANGED << agentId, emailCaptureResolve, connectionTimers,
                  agentOnClose, variantVars, captureVars, permissionVars,
                  sessionVars >>

\* The fetch settles: the rest of handleSubmit.  outcome is "ok"
\* (response.ok), "notOk" (another status) or "networkError" (fetch throws).
FetchSettles(outcome) ==
  /\ webhookInFlight > 0
  /\ webhookInFlight' = webhookInFlight - 1
  /\ popupSubmitting' = FALSE
  /\ IF outcome = "ok"
     THEN /\ handleAutoEmailSubmit
          /\ UNCHANGED popupError
     ELSE /\ popupError' = IF outcome = "notOk" THEN "failed" ELSE "network"
          /\ UNCHANGED << webhookRequests, autoDelivered, showAutoEmailModal >>
  /\ UNCHANGED autoSubmits
  /\ UNCHANGED << agentId, emailCaptureResolve, connectionTimers,
                  agentOnClose, autoTimers, uncaughtError, captureVars,
                  permissionVars, sessionVars >>

\* The vendor reports the end of the connection.
Disconnected_get_email ==
  /\ status = "connected"
  /\ status' = "disconnected"
  /\ onDisconnect_get_email
  /\ UNCHANGED << connectionAttempts, startPc, capturedAttempts, startCalls,
                  sessionsInFlight >>
  /\ UNCHANGED errorTimers
  /\ UNCHANGED << agentId, emailCaptureResolve, connectionTimers,
                  agentOnClose, popupVars, permissionVars >>

\* handleEndSession of part_000, with the vendor's onDisconnect during
\* conversation.endSession().
handleEndSession_get_email ==
  /\ status = "connected"
  /\ ~isRequestingPermission
  /\ status' = "disconnected"
  /\ onDisconnect_get_email
  /\ connectionAttempts' = 0
  /\ UNCHANGED << startPc, capturedAttempts, startCalls, sessionsInFlight >>
  /\ UNCHANGED errorTimers
  /\ UNCHANGED << agentId, emailCaptureResolve, connectionTimers,
                  agentOnClose, popupVars, permissionVars >>

\* ------------------------------------------------------------- specifications
\* The email capture slot of App.tsx, with the permission gate and the
\* session life cycle that lets the agent call the tool: connects succeed.
Next ==
  \/ capture_Email
  \/ \E r \in Requests : CaptureTimeout(r)
  \/ \E e \in Inputs : SetEmailInput(e)
  \/ handleEmailSubmit
  \/ handleEmailCancel
  \/ ClickStart
  \/ \E granted \in BOOLEAN : GetUserMediaSettles(granted)
  \/ \E granted \in BOOLEAN : PermissionQuerySettles(granted)
  \/ PermissionQueryFails
  \/ \E granted \in BOOLEAN : PermissionChange(granted)
  \/ SessionResolves
  \/ Disconnected
  \/ handleEndSession
  \/ handleEndSessionThrows

Spec == Init /\ [][Next]_vars

\* Timers that are armed fire.
FairSpec == Spec /\ \A r \in Requests : WF_vars(CaptureTimeout(r))

\* The permission gate and the session controller of App.tsx, with failing
\* connects and the retry chain; no tool call is made.
NextSession ==
  \/ ClickStart
  \/ CallRequestMicrophonePermission
  \/ \E granted \in BOOLEAN : GetUserMediaSettles(granted)
  \/ \E granted \in BOOLEAN : PermissionQuerySettles(granted)
  \/ PermissionQueryFails
  \/ \E granted \in BOOLEAN : PermissionChange(granted)
  \/ SessionResolves
  \/ SessionRejects
  \/ ConnectionTimeout
  \/ RetryTimer
  \/ \E connected \in BOOLEAN : AbandonedSessionSettles(connected)
  \/ Disconnected
  \/ handleEndSession
  \/ handleEndSessionThrows
  \/ onError
  \/ ErrorRetryTimer

SpecSession == Init /\ [][NextSession]_vars

\* Timers that are armed fire.
FairSpecSession ==
  SpecSession /\ WF_vars(ErrorRetryTimer) /\ WF_vars(RetryTimer)

\* The get_email variant (part_000): the tool, the two popups and the
\* session life cycle that lets the agent call the tool; permission is
\* obtained through the prompt.
\* Connections whose startSession resolves before the connection timeout,
\* with the timer of each race followed to its expiry.
NextConnect ==
  \/ ClickStart
  \/ CallRequestMicrophonePermission
  \/ \E granted \in BOOLEAN : GetUserMediaSettles(granted)
  \/ \E granted \in BOOLEAN : PermissionQuerySettles(granted)
  \/ PermissionQueryFails
  \/ \E granted \in BOOLEAN : PermissionChange(granted)
  \/ SessionResolvesInTime
  \/ StaleConnectionTimeout
  \/ Disconnected
  \/ handleEndSession
  \/ handleEndSessionThrows

SpecConnect == Init /\ [][NextConnect]_vars

\* The useVoiceAssistant variant (part_005 with the App of part_003): the
\* tool, its timeout and the modal handlers.  The hook's permission and
\* session handlers have the code of App.tsx, and its onDisconnect only
\* clears isSecureConnection, which is all that App.tsx's does through its
\* stale closure.
NextVoiceAssistant ==
  \/ capture_Email_hook
  \/ \E r \in Requests : HookTimeout(r)
  \/ \E e \in Inputs : SetEmailInput(e)
  \/ handleEmailSubmit_hook
  \/ handleEmailCancel_hook
  \/ ClickStart
  \/ \E granted \in BOOLEAN : GetUserMediaSettles(granted)
  \/ \E granted \in BOOLEAN : PermissionQuerySettles(granted)
  \/ SessionResolves
  \/ Disconnected
  \/ handleEndSession

SpecVoiceAssistant == Init /\ [][NextVoiceAssistant]_vars

NextGetEmail ==
  \/ get_email
  \/ \E r \in Requests : GetEmailTimeout(r)
  \/ \E e \in Inputs : PopupSubmitAgent(e)
  \/ PopupCloseAgent
  \/ ClickStart
  \/ \E granted \in BOOLEAN : GetUserMediaSettles(granted)
  \/ SessionResolves_get_email
  \/ AutoTrigger
  \/ handleAutoEmailClose
  \/ \E e \in Inputs : AutoPopupSubmit(e)
  \/ AutoImageSettles
  \/ Disconnected_get_email
  \/ handleEndSession_get_email

SpecGetEmail == Init /\ [][NextGetEmail]_vars

\* The auto-triggered popup in the fetch variant of EmailPopup, with the
\* session life cycle of part_000 that opens it.
NextPopupFetch ==
  \/ ClickStart
  \/ \E granted \in BOOLEAN : GetUserMediaSettles(granted)
  \/ \E granted \in BOOLEAN : PermissionQuerySettles(granted)
  \/ PermissionQueryFails
  \/ SessionResolves_get_email
  \/ AutoTrigger
  \/ handleAutoEmailClose
  \/ \E e \in Inputs : FetchPopupSubmit(e)
  \/ \E outcome \in {"ok", "notOk", "networkError"} : FetchSettles(outcome)
  \/ Disconnected_get_email
  \/ handleEndSession_get_email

SpecPopupFetch == Init /\ [][NextPopupFetch]_vars

\* ------------------------------------------------------------- claims
Pending(r) == promise[r] = "pending"

\* C1 (as claimed): whenever the capture tool is invoked while an earlier
\* request is still pending, that step resolves the earlier request's
\* promise with success:false.
C1_SupersedeResolvesEarlier ==
  [][ capture_Email =>
        \A r \in Requests :
           Pending(r) => /\ promise'[r] = "resolved"
                         /\ value'[r].success = FALSE ]_vars

\* C2: once a request's promise is resolved, no later step calls its resolve
\* function again or changes its outcome, and while that request is the
\* latest one no later submit, cancel or timeout changes the modal or the
\* resolver slot.
C2_NoDoubleResolution ==
  [][ \A r \in Requests :
        promise[r] = "resolved" =>
          /\ promise'[r] = promise[r]
          /\ value'[r] = value[r]
          /\ resolveCalls'[r] = resolveCalls[r]
          /\ (r = nextReq /\ nextReq' = nextReq) =>
                /\ showEmailModal' = showEmailModal
                /\ emailCaptureResolver' = emailCaptureResolver ]_vars

\* C2 witness: a request resolved by a successful submit, whose timer was
\* cancelled by that submit and whose resolve function was called once.
C2_Witness ==
  \E r \in Requests :
     /\ promise[r] = "resolved"
     /\ value[r].success
     /\ timer[r] = "cleared"
     /\ resolveCalls[r] = 1

\* C3 (as claimed): a submit whose trimmed input is empty or is not of the
\* shape local-part@domain-with-a-dot leaves the modal shown and every
\* promise as it was.
C3_ValidationGate ==
  [][ (handleEmailSubmit /\ ~emailRegexTest(Trim(emailInput))) =>
        (showEmailModal' /\ promise' = promise) ]_vars

\* C5 (as claimed): when onDisconnect fires while a capture request is stored
\* in the slot, that step resolves its promise with success:false, clears
\* the slot and closes the modal.
C5_DisconnectCancelsCapture ==
  [][ (status = "connected" /\ status' = "disconnected") =>
        \A r \in Requests :
           (emailCaptureResolver = r /\ Pending(r)) =>
              /\ promise'[r] = "resolved"
              /\ value'[r].success = FALSE
              /\ emailCaptureResolver' = NoRequest
              /\ ~showEmailModal' ]_vars

\* C7: the step in which a request's timer fires finds the promise pending,
\* resolves it with email:null, success:false (timeout) by the one and only
\* call of its resolve function, and closes the modal; a request whose timer
\* has fired keeps that outcome.
C7_TimeoutFiresOnce ==
  /\ [](\A r \in Requests :
          timer[r] = "fired" =>
             /\ promise[r] = "resolved"
             /\ value[r] = TimeoutResult
             /\ resolveCalls[r] = 1)
  /\ [][ \A r \in Requests :
           (timer[r] = "armed" /\ timer'[r] = "fired") =>
              /\ Pending(r)
              /\ promise'[r] = "resolved"
              /\ value'[r] = TimeoutResult
              /\ ~showEmailModal' ]_vars

\* C7 witness: a request that timed out, with the modal closed.
C7_Witness ==
  \E r \in Requests :
     /\ timer[r] = "fired"
     /\ value[r] = TimeoutResult
     /\ ~showEmailModal

\* C8 (as claimed): at most one capture request's promise is unresolved.
C8_SingleSlot == Cardinality({r \in Requests : Pending(r)}) <= 1

\* C9: under FairSpec (armed timers fire) every promise returned by
\* capture_Email is eventually resolved.
C9_CaptureLiveness ==
  \A r \in Requests : Pending(r) ~> (promise[r] = "resolved")

\* C9 witness: request 1 was replaced by request 2 and has been resolved by
\* its own timeout, which emptied the slot while request 2 is still pending.
C9_Witness ==
  /\ nextReq >= 2
  /\ promise[1] = "resolved"
  /\ value[1] = TimeoutResult
  /\ Pending(2)
  /\ emailCaptureResolver = NoRequest
  /\ emailCaptureCleanup = 2

\* C4 (as claimed): one click on the call button leads to at most
\* 1 + RETRY_ATTEMPTS calls of conversation.startSession.
C4_RetryCap == startCalls <= 1 + RETRY_ATTEMPTS

\* C6 (as claimed): at most one getUserMedia prompt is outstanding, and a
\* call of requestMicrophonePermission made while the first call awaits
\* getUserMedia returns with the permission state the first call returns with.
C6_PermissionIdempotent ==
  /\ gumPending <= 1
  /\ \A i \in 2..MaxPermissionCalls :
        (permissionAtReturn[1] \notin {"none", "running"}
           /\ permissionAtReturn[i] # "none")
          => permissionAtReturn[i] = permissionAtReturn[1]

\* C10 (as claimed): no exception leaves the timer callback or the stored
\* resolver of get_email, no promise is rejected, and a request whose timer
\* has fired has its promise resolved.
C10_FailuresAreValues ==
  /\ ~uncaughtError
  /\ \A r \in Requests :
        /\ promise[r] # "rejected"
        /\ timer[r] = "fired" => promise[r] = "resolved"

\* C11 (as claimed): every step that invokes conversation.startSession is
\* taken with an agent ID configured and microphone permission granted, and
\* a click on the call button without permission starts no connection.
C11_ConnectGating ==
  /\ [][ sessionsInFlight' > sessionsInFlight =>
           (agentId # "null" /\ hasPermission = "true") ]_vars
  /\ [][ (ClickStart /\ hasPermission # "true") =>
           (sessionsInFlight' = sessionsInFlight /\ status' = status) ]_vars

\* C12 (as claimed): once no request of EmailPopup.handleSubmit is in
\* flight, the webhook has been sent exactly one request per address
\* submitted through the auto-triggered popup.
C12_OneWebhookPerEmail == webhookInFlight = 0 => webhookRequests = autoSubmits

\* C13: a submit of a well-formed address in the agent-tool popup resolves
\* the stored request's promise and sends nothing to the webhook; every step
\* that sends a request to the webhook is a submit of the auto-triggered
\* popup or the delivery of one to its onSubmit.
C13_WebhookOnlyAutoTrigger ==
  /\ [][ \A e \in Inputs :
           (PopupSubmitAgent(e) /\ ValidationError(e) = "none"
              /\ emailCaptureResolver # NoRequest) =>
             /\ promise'[emailCaptureResolver] = "resolved"
             /\ webhookRequests' = webhookRequests ]_vars
  /\ [][ webhookRequests' # webhookRequests =>
           (autoSubmits' > autoSubmits \/ autoDelivered' > autoDelivered) ]_vars

\* C13 witness: an agent-tool request resolved by a submit while nothing has
\* been sent to the webhook.
C13_Witness ==
  \E r \in Requests :
     /\ promise[r] = "resolved"
     /\ resolveCalls[r] = 1
     /\ timer[r] = "cleared"
     /\ webhookRequests = 0

\* C14 (as claimed): whenever a webhook request of EmailPopup.handleSubmit
\* settles, no error is shown, the popup is closed and onSubmit is called.
C14_WebhookFireAndForget ==
  [][ webhookInFlight' < webhookInFlight =>
        /\ popupError' = "none"
        /\ ~showAutoEmailModal'
        /\ autoDelivered' = autoDelivered + 1 ]_vars

\* C17: a submit of a well-formed address in the agent-tool popup settles
\* the stored request's promise with the trimmed address itself.
C17_RawEmailToAgent ==
  [][ \A e \in Inputs :
        (PopupSubmitAgent(e) /\ ValidationError(e) = "none"
           /\ emailCaptureResolver # NoRequest) =>
          /\ promise'[emailCaptureResolver] = "resolved"
          /\ value'[emailCaptureResolver] = [string |-> Trim(e)] ]_vars

\* C17 witness: a promise resolved with the address "a@b.c", typed as
\* " a@b.c ".
C17_Witness ==
  \E r \in Requests :
     /\ promise[r] = "resolved"
     /\ value[r] = [string |-> <<"a", "@", "b", ".", "c">>]

\* C15 (as claimed): the step of handleEndSession leaves no capture request
\* pending, the modal closed and no retry timer scheduled.
C15_EndSessionCancelsPending ==
  [][ handleEndSession =>
        /\ \A r \in Requests : promise'[r] # "pending"
        /\ ~showEmailModal'
        /\ startPc' # "retryWait" ]_vars

\* C16 (as claimed): every step that opens the auto-triggered popup is taken
\* while the session is connected.
C16_AutoTriggerWhileConnected ==
  [][ (~showAutoEmailModal /\ showAutoEmailModal') => status = "connected" ]_vars

\* C19: with no agent ID configured the controller never leaves its initial
\* state (no startSession call, no connection, no retry timer, counter 0),
\* and a click on the call button requests no permission.
C19_MissingAgentIdIsFatal ==
  /\ [](agentId = "null" =>
          /\ status = "disconnected"
          /\ sessionsInFlight = 0
          /\ startCalls = 0
          /\ startPc = "idle"
          /\ connectionAttempts = 0)
  /\ [][ (ClickStart /\ agentId = "null") =>
           UNCHANGED << gumPending, isRequestingPermission, permissionCalls,
                        hasPermission >> ]_vars

\* C19 witness: no agent ID, permission granted and the call button enabled:
\* a click would connect if an agent ID were configured.
C19_Witness ==
  /\ agentId = "null"
  /\ hasPermission = "true"
  /\ StartButtonEnabled
  /\ startPc = "idle"

\* t is s without the white space at its two ends.
IsTrimOf(t, s) ==
  \E i, j \in 0..Len(s) :
     /\ i + j <= Len(s)
     /\ t = SubSeq(s, i + 1, Len(s) - j)
     /\ \A k \in 1..i : s[k] \in WhiteSpace
     /\ \A k \in (Len(s) - j + 1)..Len(s) : s[k] \in WhiteSpace
     /\ t # <<>> => (t[1] \notin WhiteSpace /\ t[Len(t)] \notin WhiteSpace)

\* C20: a submit while a request is pending, with an input whose trimmed
\* form t is a well-formed address, resolves the stored request's promise
\* with success:true and email t, empties the slot and closes the modal.
C20_TrimmedSuccess ==
  [][ LET e == emailInput
          t == CHOOSE x \in {SubSeq(e, i, j) : i \in 1..(Len(e) + 1),
                                               j \in 0..Len(e)} :
                  IsTrimOf(x, e)
          r == emailCaptureResolver
      IN  (handleEmailSubmit /\ emailRegexTest(t)
             /\ \E q \in Requests : Pending(q)) =>
              /\ r # NoRequest
              /\ promise'[r] = "resolved"
              /\ value'[r].success
              /\ value'[r].email = t
              /\ emailCaptureResolver' = NoRequest
              /\ ~showEmailModal' ]_vars

\* C20 witness: a promise resolved with success:true and the address
\* "a@b.c", typed as " a@b.c ".
C20_Witness ==
  \E r \in Requests :
     /\ promise[r] = "resolved"
     /\ value[r].success
     /\ value[r].email = <<"a", "@", "b", ".", "c">>
     /\ ~showEmailModal
     /\ emailCaptureResolver = NoRequest

\* C18 (as claimed): once onError has scheduled its retry (fewer than
\* RETRY_ATTEMPTS retries used), a connect attempt is eventually under way.
C18_ErrorsAutoRetried == (errorTimers > 0) ~> (status = "connecting")

\* C21: handleEmailCancel with a pending request stored in the slot resolves
\* that request's promise with email:null, success:false (cancelled), empties
\* the slot and closes the modal, and settles no other promise; with no
\* pending request stored it settles nothing.
C21_CancelContract ==
  [][ handleEmailCancel =>
        LET r == emailCaptureResolver IN
          IF r # NoRequest /\ Pending(r)
          THEN /\ promise'[r] = "resolved"
               /\ value'[r].email = NullEmail
               /\ ~value'[r].success
               /\ value'[r].message = "cancelled"
               /\ emailCaptureResolver' = NoRequest
               /\ ~showEmailModal'
               /\ \A q \in Requests \ {r} :
                     promise'[q] = promise[q] /\ value'[q] = value[q]
          ELSE promise' = promise /\ value' = value ]_vars

\* C21 witness: a request resolved as cancelled, with the slot empty and the
\* modal closed.
C21_Witness ==
  \E r \in Requests :
     /\ promise[r] = "resolved"
     /\ value[r].message = "cancelled"
     /\ resolveCalls[r] = 1
     /\ emailCaptureResolver = NoRequest
     /\ ~showEmailModal

\* C22: in every state, and so in the state in which hasPermission becomes
\* true after a grant, no track of a stream obtained by
\* requestMicrophonePermission is open.
C22_MicrophoneReleased == openTracks = 0

\* C22 witness: a prompt was granted, its call has returned with
\* hasPermission true, and no track is open.
C22_Witness ==
  /\ permissionAtReturn[1] = "true"
  /\ hasPermission = "true"
  /\ gumPending = 0
  /\ openTracks = 0

\* C23 (as claimed): at most one conversation.startSession call is in
\* flight at any time.
C23_SequentialConnects == sessionsInFlight <= 1

\* C24: a request resolved by handleEmailSubmit or handleEmailCancel has its
\* timer cleared, and a cleared timer never fires.
C24_ResolutionCancelsTimer ==
  /\ [](\A r \in Requests :
          (promise[r] = "resolved"
             /\ value[r].message \in {"captured", "cancelled"}) =>
            timer[r] = "cleared")
  /\ [][ \A r \in Requests : timer[r] = "cleared" => timer'[r] = "cleared" ]_vars

\* C24 witness: both a submitted and a cancelled request exist, each with
\* its timer cleared.
C24_Witness ==
  \E r, q \in Requests :
     /\ value[r].message = "captured" /\ timer[r] = "cleared"
     /\ value[q].message = "cancelled" /\ timer[q] = "cleared"

\* C25: every step in which the session becomes connected (onConnect) and
\* every step that completes handleEndSession, whether endSession succeeds
\* or throws, ends with connectionAttempts = 0.
C25_RetryCounterReset ==
  [][ ((status # "connected" /\ status' = "connected")
         \/ handleEndSession \/ handleEndSessionThrows) =>
        connectionAttempts' = 0 ]_vars

\* C25 witness: connected after at least one retry, with the counter back
\* at 0.
C25_Witness ==
  /\ status = "connected"
  /\ startCalls >= 2
  /\ connectionAttempts = 0

\* C26 (as claimed): the agent-tool popup never calls onClose on a user
\* action.
C26_AgentPopupNotCancellable == ~agentOnClose

\* C27 (as claimed): part_000's agent-tool email modal and its auto-triggered
\* email modal are never open at the same time.
C27_OneModalAtATime == ~(showEmailModal /\ showAutoEmailModal)

\* C28 (as claimed): the 'change' listener sets hasPermission to true
\* exactly when the platform reports 'granted', and while the listener is
\* installed and the last reported state is not granted no step invokes
\* conversation.startSession.
C28_PermissionChangesTracked ==
  /\ [][ \A granted \in BOOLEAN :
           PermissionChange(granted) =>
             ((hasPermission' = "true") <=> granted) ]_vars
  /\ [][ (permissionQuery = "listening" /\ hasPermission = "false") =>
           sessionsInFlight' <= sessionsInFlight ]_vars

\* C29: the failing initial check changes neither hasPermission nor the
\* error flag, and as long as no microphone request has been made after a
\* failed check hasPermission is null and no exception has escaped.
C29_SilentInitialCheckFailure ==
  /\ []( (permissionQuery = "failed" /\ permissionCalls = 0) =>
           (hasPermission = "null" /\ ~uncaughtError) )
  /\ [][ PermissionQueryFails =>
           (hasPermission' = hasPermission /\ uncaughtError' = uncaughtError
              /\ isRequestingPermission' = isRequestingPermission) ]_vars

\* C29 witness: the initial check has failed and the permission state is
\* still unknown when the user has started to use the page.
C29_Witness ==
  /\ permissionQuery = "failed"
  /\ hasPermission = "null"
  /\ ~uncaughtError
  /\ permissionCalls = 0

\* C30 (as claimed): when the timeout of a request fires while the slot holds
\* another, newer request, the step leaves the stored resolver and the modal
\* as they are.
C30_StaleTimerLeavesNewerRequest ==
  [][ \A r \in Requests :
        (timer[r] = "armed" /\ timer'[r] = "fired"
           /\ emailCaptureResolver # NoRequest /\ emailCaptureResolver # r) =>
          (emailCaptureResolver' = emailCaptureResolver
             /\ showEmailModal' = showEmailModal) ]_vars

\* C31: the email modal of App is shown exactly when a resolver is stored in
\* the slot.
C31_ModalAndSlotAgree == showEmailModal <=> (emailCaptureResolver # NoRequest)

\* C31 witness: the session has been disconnected while a request is stored;
\* the modal is still shown and the resolver is still in the slot.
C31_Witness ==
  /\ showEmailModal
  /\ emailCaptureResolver # NoRequest
  /\ status = "disconnected"
  /\ startCalls >= 1
  /\ \E r \in Requests : promise[r] = "resolved"

\* C32 (as claimed): connectionAttempts stays between 0 and RETRY_ATTEMPTS.
C32_RetryCounterBounded ==
  connectionAttempts >= 0 /\ connectionAttempts <= RETRY_ATTEMPTS

\* C33 (as claimed): while the session is connected and neither an error nor
\* an end of the session has followed the last onConnect (isSecureConnection
\* is still true), connectionAttempts is 0.
C33_CounterZeroWhileConnected ==
  (status = "connected" /\ isSecureConnection) => connectionAttempts = 0

\* C34: when only startSession settles the race, and it resolves, no retry is
\* ever pending and connectionAttempts stays 0; the later expiry of the
\* connection-timeout timer changes nothing of the session controller.
C34_NoRetryAfterSuccessfulConnect ==
  /\ [](startPc # "retryWait" /\ connectionAttempts = 0 /\ startCalls <= 1)
  /\ [][ (connectionTimers' < connectionTimers) => UNCHANGED sessionVars ]_vars

\* C34 witness: the session is connected and the timer of its race has
\* expired since.
C34_Witness ==
  /\ status = "connected"
  /\ isSecureConnection
  /\ startCalls = 1
  /\ connectionTimers = 0
  /\ connectionAttempts = 0

\* C35: every step in which a getUserMedia call settles ends with
\* isRequestingPermission false and hasPermission true or false, and the
\* flag is set only while a getUserMedia call is pending.
C35_PermissionRequestSettles ==
  /\ [](isRequestingPermission => gumPending > 0)
  /\ [][ (gumPending' < gumPending) =>
           (~isRequestingPermission' /\ hasPermission' \in {"true", "false"}) ]_vars

\* C35 witness: a request was refused or failed; the flag is cleared and the
\* permission state is false.
C35_Witness ==
  /\ permissionCalls >= 1
  /\ gumPending = 0
  /\ ~isRequestingPermission
  /\ hasPermission = "false"
  /\ permissionAtReturn[1] = "false"

\* C36 (as claimed): in the useVoiceAssistant variant the email modal is
\* shown only while the request on window.emailCaptureResolve is unresolved,
\* and the property never refers to a request whose promise is resolved.
C36_ModalOnlyWhileUnresolved ==
  /\ showEmailModal =>
       (emailCaptureResolve # NoRequest
          /\ promise[emailCaptureResolve] = "pending")
  /\ \A r \in Requests : promise[r] = "resolved" => emailCaptureResolve # r

====
